---- MODULE Spec2Model ----
(***************************************************************************)
(* FileForge compression codecs: Huffman coding, Run-Length Encoding and   *)
(* LZ77, as implemented in backend/src/utils.  One compressor instance     *)
(* compresses one input file into an artifact file and a decompressor      *)
(* decodes that artifact (possibly damaged in between) into an output      *)
(* file.  Bytes are integers 0..255, bit strings are sequences of 0/1.     *)
(***************************************************************************)
EXTENDS Integers, Sequences, FiniteSets, TLC

VARIABLES
    mode,       \* which codec this run exercises
    pc,         \* position of the caller: new, ready, encode, compressed, done
    data,       \* the buffer the current call read from its input file
    work,       \* the structures the current compress call has built so far
    artFile,    \* the artifact file: [exists, magic, body]
    outFile,    \* the decompressed output file: [exists, content]
    result,     \* outcome of the last call
    hroot,      \* HuffmanCompressor.root
    hcodes,     \* HuffmanCompressor.codes
    params,     \* constructor parameters (threshold / window_size / lookahead_size)
    damage,     \* what happened to the artifact in storage ("none" when intact)
    vl,         \* scratch state of the variable-length integer exercise
    prev,       \* what the previous compress call on this instance read and produced
    analysis,   \* what RLECompressor.analyze_file returned
    probe,      \* a helper method called on its own: its arguments and what it returned
    http        \* a request to the HTTP adapter: its form fields, how far the handler
                \* got, its temporary files and its response

vars == <<mode, pc, data, work, artFile, outFile, result, hroot, hcodes, params, damage, vl,
          prev, analysis, probe, http>>

----------------------------------------------------------------------------
(* Bounds of the model *)

HMaxLen == 5
LMaxLen == 7
RMaxPieces == 2
MaxCalls == 2
MatchMaxLen == 8
HttpMaxLen == 3
RepeatMaxLen == 3

(* Byte values the inputs are drawn from *)
HBytes == {0, 97, 98, 99}
LBytes == {0, 97}

----------------------------------------------------------------------------
(* Generic helpers *)

Min(a, b) == IF a < b THEN a ELSE b
Max(a, b) == IF a > b THEN a ELSE b

SeqsUpTo(S, n) == UNION {[1..k -> S] : k \in 0..n}

Take(s, n) == SubSeq(s, 1, Min(Len(s), Max(n, 0)))
Drop(s, n) == SubSeq(s, Min(Len(s), Max(n, 0)) + 1, Len(s))

Rep(x, n) == [i \in 1..n |-> x]

RECURSIVE Pow2(_)
Pow2(n) == IF n = 0 THEN 1 ELSE 2 * Pow2(n - 1)

----------------------------------------------------------------------------
(* Files and call outcomes *)

NoFile == [exists |-> FALSE, magic |-> <<>>, body |-> <<>>]
NoOut == [exists |-> FALSE, content |-> <<>>]
NoResult == [outcome |-> "none", success |-> FALSE, error |-> "",
             original_size |-> -1, decompressed_size |-> -1]
NoWork == [built |-> {}, total_bits |-> 0, runs |-> <<>>, triplets |-> <<>>]

Raised(msg) == [outcome |-> "raised", success |-> FALSE, error |-> msg,
                original_size |-> -1, decompressed_size |-> -1]

(* pickle.dump writes a protocol-4 stream: it begins with 0x80 0x04 *)
PickleMagic == <<128, 4>>
Pickled(dict) == [exists |-> TRUE, magic |-> PickleMagic, body |-> dict]

(* pickle.load accepts a stream that begins with the PROTO opcode 0x80 and *)
(* a protocol number it supports, 0 to 5                                   *)
Unpicklable(f) ==
    ~(f.exists /\ Len(f.magic) >= 2 /\ f.magic[1] = 128 /\ f.magic[2] \in 0..5)

----------------------------------------------------------------------------
(* Huffman tree nodes: <<char, freq, left, right>>; None is <<>>;           *)
(* char = -1 stands for char = None                                        *)

None == <<>>
HuffmanNode(char, freq, left, right) == <<char, freq, left, right>>
NoChar == 0 - 1

(* the node order reversed *)
HuffmanNode_gt(a, b) == a[2] > b[2]

HuffmanNode_lt(a, b) == a[2] < b[2]

(* Counter(data): counts keyed in order of first occurrence *)
RECURSIVE KeysInOrder(_, _)
KeysInOrder(d, seen) ==
    IF d = <<>> THEN <<>>
    ELSE IF Head(d) \in seen THEN KeysInOrder(Tail(d), seen)
         ELSE <<Head(d)>> \o KeysInOrder(Tail(d), seen \cup {Head(d)})

Count(d, b) == Cardinality({i \in 1..Len(d) : d[i] = b})

build_frequency_table(d) ==
    LET ks == KeysInOrder(d, {})
    IN [i \in 1..Len(ks) |-> <<ks[i], Count(d, ks[i])>>]

(* heapq._siftdown, positions 0-based as in the library *)
RECURSIVE siftdown(_, _, _, _)
siftdown(heap, startpos, pos, newitem) ==
    IF pos > startpos
    THEN LET parentpos == (pos - 1) \div 2
             parent == heap[parentpos + 1]
         IN IF HuffmanNode_lt(newitem, parent)
            THEN siftdown([heap EXCEPT ![pos + 1] = parent], startpos, parentpos, newitem)
            ELSE [heap EXCEPT ![pos + 1] = newitem]
    ELSE [heap EXCEPT ![pos + 1] = newitem]

(* heapq._siftup *)
RECURSIVE siftup(_, _, _, _)
siftup(heap, startpos, pos, newitem) ==
    LET endpos == Len(heap)
        childpos == 2 * pos + 1
    IN IF childpos < endpos
       THEN LET rightpos == childpos + 1
                c == IF rightpos < endpos
                        /\ ~HuffmanNode_lt(heap[childpos + 1], heap[rightpos + 1])
                     THEN rightpos ELSE childpos
            IN siftup([heap EXCEPT ![pos + 1] = heap[c + 1]], startpos, c, newitem)
       ELSE siftdown(heap, startpos, pos, newitem)

heappush(heap, item) ==
    LET h == Append(heap, item) IN siftdown(h, 0, Len(h) - 1, item)

(* heappop returns <<popped item, remaining heap>> *)
heappop(heap) ==
    LET lastelt == heap[Len(heap)]
        rest == SubSeq(heap, 1, Len(heap) - 1)
    IN IF rest # <<>>
       THEN <<rest[1], siftup([rest EXCEPT ![1] = lastelt], 0, 0, lastelt)>>
       ELSE <<lastelt, rest>>

RECURSIVE PushLeaves(_, _)
PushLeaves(ft, heap) ==
    IF ft = <<>> THEN heap
    ELSE PushLeaves(Tail(ft),
                    heappush(heap, HuffmanNode(Head(ft)[1], Head(ft)[2], None, None)))

RECURSIVE Combine(_)
Combine(heap) ==
    IF Len(heap) > 1
    THEN LET p1 == heappop(heap)
             p2 == heappop(p1[2])
             merged == HuffmanNode(NoChar, p1[1][2] + p2[1][2], p1[1], p2[1])
         IN Combine(heappush(p2[2], merged))
    ELSE heap[1]

(* the tree with a single leaf hung on the right of the root *)
build_huffman_tree_right(freq_table) ==
    IF freq_table = <<>> THEN None
    ELSE LET heap == PushLeaves(freq_table, <<>>)
         IN IF Len(heap) = 1
            THEN HuffmanNode(NoChar, heap[1][2], None, heappop(heap)[1])
            ELSE Combine(heap)

build_huffman_tree(freq_table) ==
    IF freq_table = <<>> THEN None
    ELSE LET heap == PushLeaves(freq_table, <<>>)
         IN IF Len(heap) = 1
            THEN HuffmanNode(NoChar, heap[1][2], heappop(heap)[1], None)
            ELSE Combine(heap)

(* codes: a function from byte value to bit string, filled in traversal order *)
EmptyDict == [x \in {} |-> <<>>]
DictSet(d, k, v) == [x \in DOMAIN d \cup {k} |-> IF x = k THEN v ELSE d[x]]

(* generate_codes with the right descent labelled 0 as well *)
RECURSIVE generate_codes_same_bit(_, _, _)
generate_codes_same_bit(root, code, codes) ==
    IF root = None THEN codes
    ELSE IF root[1] # NoChar
         THEN DictSet(codes, root[1], IF code # <<>> THEN code ELSE <<0>>)
         ELSE generate_codes_same_bit(root[4], Append(code, 0),
                             generate_codes_same_bit(root[3], Append(code, 0), codes))

RECURSIVE generate_codes(_, _, _)
generate_codes(root, code, codes) ==
    IF root = None THEN codes
    ELSE IF root[1] # NoChar
         THEN DictSet(codes, root[1], IF code # <<>> THEN code ELSE <<0>>)
         ELSE generate_codes(root[4], Append(code, 1),
                             generate_codes(root[3], Append(code, 0), codes))

----------------------------------------------------------------------------
(* Huffman: bit packing *)

RECURSIVE encode_bits(_, _)
encode_bits(d, codes) ==
    IF d = <<>> THEN <<>> ELSE codes[Head(d)] \o encode_bits(Tail(d), codes)

(* the padding count reduced modulo 8 *)
huffman_padding_mod(nbits) == (8 - (nbits % 8)) % 8

(* padding = 8 - len(encoded_string) % 8 *)
huffman_padding(nbits) == 8 - (nbits % 8)

(* int(byte, 2) of a chunk of up to 8 bits *)
RECURSIVE int2(_)
int2(bits) ==
    IF bits = <<>> THEN 0 ELSE 2 * int2(SubSeq(bits, 1, Len(bits) - 1)) + bits[Len(bits)]

RECURSIVE pack_bits(_)
pack_bits(bits) ==
    IF bits = <<>> THEN <<>>
    ELSE <<int2(Take(bits, 8))>> \o pack_bits(Drop(bits, 8))

(* format(byte, '08b') *)
format08b(byte) == [i \in 1..8 |-> (byte \div Pow2(8 - i)) % 2]

RECURSIVE unpack_bits(_)
unpack_bits(bytes) ==
    IF bytes = <<>> THEN <<>> ELSE format08b(Head(bytes)) \o unpack_bits(Tail(bytes))

(* stripping without the padding != 8 test *)
strip_padding_always(bits, padding) ==
    Take(bits, IF padding = 0 THEN 0 ELSE Len(bits) - padding)

(* bit_string[:-padding]; in Python s[:-0] is the empty string *)
strip_padding(bits, padding) ==
    IF padding # 8 THEN Take(bits, IF padding = 0 THEN 0 ELSE Len(bits) - padding)
    ELSE bits

(* The encoder of HuffmanCompressor.compress after the empty check *)
huffman_encode(d) ==
    LET freq_table == build_frequency_table(d)
        root == build_huffman_tree(freq_table)
        codes == generate_codes(root, <<>>, EmptyDict)
        encoded_string == encode_bits(d, codes)
        padding == huffman_padding(Len(encoded_string))
        padded == IF padding # 8 THEN encoded_string \o Rep(0, padding)
                  ELSE encoded_string
    IN [root |-> root, codes |-> codes, total_bits |-> Len(encoded_string),
        dict |-> [compressed_data |-> pack_bits(padded), tree |-> root,
                  original_size |-> Len(d), padding |-> padding]]

(* The decode loop of HuffmanCompressor.decompress: walks the tree bit by   *)
(* bit; err is set when current_node is None where its char is read         *)
RECURSIVE huffman_walk(_, _, _, _)
huffman_walk(bits, tree_root, current_node, decoded) ==
    IF bits = <<>>
    THEN [err |-> FALSE,
          decoded |-> IF current_node # None /\ current_node[1] # NoChar
                      THEN Append(decoded, current_node[1]) ELSE decoded]
    ELSE IF current_node = None
         THEN [err |-> TRUE, decoded |-> decoded]
         ELSE LET leaf == current_node[1] # NoChar
                  node == IF leaf THEN tree_root ELSE current_node
                  dec == IF leaf THEN Append(decoded, current_node[1]) ELSE decoded
              IN IF node = None
                 THEN [err |-> TRUE, decoded |-> dec]
                 ELSE huffman_walk(Tail(bits), tree_root,
                                   IF Head(bits) = 0 THEN node[3] ELSE node[4], dec)

(* HuffmanCompressor.decompress on an artifact file: the result record and  *)
(* the output file it leaves                                                *)
huffman_decompress(f) ==
    IF Unpicklable(f)
    THEN [result |-> [outcome |-> "returned", success |-> FALSE,
                      error |-> "unpickling failed",
                      original_size |-> -1, decompressed_size |-> 0],
          out |-> NoOut]
    ELSE LET d == f.body
             bit_string == strip_padding(unpack_bits(d.compressed_data), d.padding)
             w == huffman_walk(bit_string, d.tree, d.tree, <<>>)
             size_match == Len(w.decoded) = d.original_size
         IN IF w.err
            THEN [result |-> [outcome |-> "returned", success |-> FALSE,
                              error |-> "'NoneType' object has no attribute",
                              original_size |-> -1, decompressed_size |-> 0],
                  out |-> NoOut]
            ELSE [result |-> [outcome |-> "returned",
                              success |-> size_match /\ Len(w.decoded) > 0,
                              error |-> IF size_match THEN "" ELSE "Size mismatch",
                              original_size |-> d.original_size,
                              decompressed_size |-> Len(w.decoded)],
                  out |-> [exists |-> TRUE, content |-> w.decoded]]

----------------------------------------------------------------------------
(* RLE: run detection.  Segments are <<is_compressed, length, bytes>>;      *)
(* positions are 0-based as in the source                                   *)

(* the inner while loops that count consecutive identical bytes from i *)
RECURSIVE run_length_at(_, _, _)
run_length_at(d, i, n) ==
    IF i + n < Len(d) /\ d[i + n + 1] = d[i + 1]
    THEN run_length_at(d, i, n + 1) ELSE n

(* the literal loop stopping only at runs longer than the threshold *)
RECURSIVE literal_end_longer(_, _, _)
literal_end_longer(d, i, threshold) ==
    IF i < Len(d)
    THEN LET next_run_length == run_length_at(d, i, 1)
         IN IF next_run_length > threshold THEN i
            ELSE literal_end_longer(d, i + next_run_length, threshold)
    ELSE i

(* the loop that extends a literal until a compressible run begins *)
RECURSIVE literal_end(_, _, _)
literal_end(d, i, threshold) ==
    IF i < Len(d)
    THEN LET next_run_length == run_length_at(d, i, 1)
         IN IF next_run_length >= threshold THEN i
            ELSE literal_end(d, i + next_run_length, threshold)
    ELSE i

(* the main loop with a literal that starts after the short run it skipped *)
RECURSIVE encode_runs_from_skipping(_, _, _, _)
encode_runs_from_skipping(d, i, threshold, runs) ==
    IF i < Len(d)
    THEN LET run_length == run_length_at(d, i, 1)
         IN IF run_length >= threshold
            THEN encode_runs_from_skipping(d, i + run_length, threshold,
                                           Append(runs, <<TRUE, run_length, <<d[i + 1]>>>>))
            ELSE LET e == literal_end(d, i + run_length, threshold)
                     literal_data == SubSeq(d, i + run_length + 1, e)
                 IN encode_runs_from_skipping(d, e, threshold,
                        Append(runs, <<FALSE, Len(literal_data), literal_data>>))
    ELSE runs

(* the main while loop of _encode_runs from position i *)
RECURSIVE encode_runs_from(_, _, _, _)
encode_runs_from(d, i, threshold, runs) ==
    IF i < Len(d)
    THEN LET run_length == run_length_at(d, i, 1)
         IN IF run_length >= threshold
            THEN encode_runs_from(d, i + run_length, threshold,
                                  Append(runs, <<TRUE, run_length, <<d[i + 1]>>>>))
            ELSE LET e == literal_end(d, i + run_length, threshold)
                     literal_data == SubSeq(d, i + 1, e)
                 IN encode_runs_from(d, e, threshold,
                                     Append(runs, <<FALSE, Len(literal_data), literal_data>>))
    ELSE runs

(* run detection whose threshold grows with the calls already made *)
encode_runs_drift(d, threshold) ==
    IF d = <<>> THEN <<>> ELSE encode_runs_from(d, 0, threshold + prev.calls, <<>>)

encode_runs(d, threshold) ==
    IF d = <<>> THEN <<>> ELSE encode_runs_from(d, 0, threshold, <<>>)

(* RLE: variable-length integers *)
encode_length(length) ==
    IF length < 255 THEN <<length>>
    ELSE IF length < 65535
         THEN <<255, length % 256, (length \div 256) % 256>>
         ELSE <<255, 255, length % 256, (length \div 256) % 256,
                (length \div 65536) % 256, (length \div 16777216) % 256>>

(* _decode_length: err stands for the IndexError of a read past the end *)
LengthError == [err |-> TRUE, length |-> 0, consumed |-> 0]

decode_length(bytes, offset) ==
    IF offset >= Len(bytes) THEN LengthError
    ELSE IF bytes[offset + 1] < 255
         THEN [err |-> FALSE, length |-> bytes[offset + 1], consumed |-> 1]
         ELSE IF offset + 1 >= Len(bytes) THEN LengthError
              ELSE IF bytes[offset + 2] < 255
                   THEN IF offset + 2 >= Len(bytes) THEN LengthError
                        ELSE [err |-> FALSE,
                              length |-> bytes[offset + 2] + 256 * bytes[offset + 3],
                              consumed |-> 3]
                   ELSE IF offset + 5 >= Len(bytes) THEN LengthError
                        ELSE [err |-> FALSE,
                              length |-> bytes[offset + 3] + 256 * bytes[offset + 4]
                                         + 65536 * bytes[offset + 5]
                                         + 16777216 * bytes[offset + 6],
                              consumed |-> 6]

RECURSIVE encode_to_bytes(_)
encode_to_bytes(runs) ==
    IF runs = <<>> THEN <<>>
    ELSE LET r == Head(runs)
         IN <<IF r[1] THEN 255 ELSE 254>> \o encode_length(r[2]) \o r[3]
            \o encode_to_bytes(Tail(runs))

(* The encoder of RLECompressor.compress after the empty check *)
rle_encode(d, threshold) ==
    LET runs == encode_runs(d, threshold)
        compressed_data == encode_to_bytes(runs)
    IN [runs |-> runs,
        dict |-> [compressed_data |-> compressed_data,
                  original_size |-> Len(d),
                  threshold |-> threshold,
                  runs_count |-> Cardinality({i \in 1..Len(runs) : runs[i][1]}),
                  literal_segments |-> Cardinality({i \in 1..Len(runs) : ~runs[i][1]})]]

(* RLE: analyze_file.  run_analysis counts the runs of length 2..10 per     *)
(* length (key 11 stands for the key '11+'); the scan also sums the bytes  *)
(* of the runs of threshold or more bytes                                  *)
EmptyRunAnalysis == [k \in 2..11 |-> 0]

RECURSIVE analyze_runs(_, _, _, _, _)
analyze_runs(d, i, threshold, run_analysis, total_compressible_bytes) ==
    IF i < Len(d)
    THEN LET run_length == run_length_at(d, i, 1)
             key == Min(run_length, 11)
         IN analyze_runs(d, i + run_length, threshold,
                IF run_length >= 2 THEN [run_analysis EXCEPT ![key] = @ + 1]
                ELSE run_analysis,
                IF run_length >= 2 /\ run_length >= threshold
                THEN total_compressible_bytes + run_length
                ELSE total_compressible_bytes)
    ELSE [run_analysis |-> run_analysis,
          total_compressible_bytes |-> total_compressible_bytes]

RECURSIVE SumFrom(_, _, _)
SumFrom(f, lo, hi) == IF lo > hi THEN 0 ELSE f[lo] + SumFrom(f, lo + 1, hi)

(* _get_recommendation: counts the runs, not their bytes; x < n * 0.1 and  *)
(* x < n * 0.3 on integers x, n                                            *)
get_recommendation(run_analysis, file_size, threshold) ==
    LET total_runs == SumFrom(run_analysis, Max(threshold, 2), 10) + run_analysis[11]
    IN IF total_runs = 0 THEN "not recommended - no runs"
       ELSE IF 10 * total_runs < file_size THEN "may increase file size"
            ELSE IF 10 * total_runs < 3 * file_size THEN "modest"
                 ELSE "good"

NoAnalysis == [called |-> FALSE, error |-> "", file_size |-> 0,
               estimated_compressible_bytes |-> 0, recommendation |-> ""]

analyze_file(d, threshold) ==
    IF d = <<>>
    THEN [NoAnalysis EXCEPT !.called = TRUE, !.error = "File is empty"]
    ELSE LET a == analyze_runs(d, 0, threshold, EmptyRunAnalysis, 0)
         IN [called |-> TRUE, error |-> "", file_size |-> Len(d),
             estimated_compressible_bytes |-> a.total_compressible_bytes,
             recommendation |-> get_recommendation(a.run_analysis, Len(d), threshold)]

(* The header test that RLE and LZ77 decompress apply to the first bytes *)
StartsWith(h, prefix) == Len(h) >= Len(prefix) /\ SubSeq(h, 1, Len(prefix)) = prefix

header_error(header) ==
    IF StartsWith(header, <<137, 80, 78, 71>>) THEN "is a PNG image"
    ELSE IF StartsWith(header, <<74, 70, 73, 70>>) \/ StartsWith(header, <<255, 216>>)
         THEN "is a JPEG image"
         ELSE IF ~(StartsWith(header, <<128, 3>>) \/ StartsWith(header, <<128, 4>>)
                   \/ StartsWith(header, <<128, 5>>))
              THEN "does not appear to be a pickle file"
              ELSE ""

(* RLECompressor.decompress: after the header test the method reads        *)
(* self.persistent_load, an attribute the class never defines, so the call  *)
(* raises AttributeError before the artifact is loaded                      *)
rle_decompress(f) ==
    IF header_error(f.magic) # ""
    THEN [result |-> Raised(header_error(f.magic)), out |-> NoOut]
    ELSE [result |-> Raised("'RLECompressor' object has no attribute 'persistent_load'"),
          out |-> NoOut]

----------------------------------------------------------------------------
(* LZ77: longest match, triplets <<distance, length, next_char>>            *)

(* the while loop that extends a match from window offset i *)
RECURSIVE match_length_at(_, _, _, _, _, _)
match_length_at(d, i, window_end, lookahead_start, lookahead_end, match_length) ==
    IF /\ i + match_length < window_end
       /\ lookahead_start + match_length < lookahead_end
       /\ d[i + match_length + 1] = d[lookahead_start + match_length + 1]
    THEN match_length_at(d, i, window_end, lookahead_start, lookahead_end,
                         match_length + 1)
    ELSE match_length

(* the for loop taking a later offset of equal match length *)
RECURSIVE search_window_latest(_, _, _, _, _, _, _)
search_window_latest(d, i, current_pos, lookahead_end, lookahead_size, best_distance, best_length) ==
    IF i < current_pos
    THEN LET ml == match_length_at(d, i, current_pos, current_pos, lookahead_end, 0)
         IN IF ml >= best_length
            THEN search_window_latest(d, i + 1, current_pos, lookahead_end,
                                      lookahead_size, current_pos - i, ml)
            ELSE search_window_latest(d, i + 1, current_pos, lookahead_end,
                                      lookahead_size, best_distance, best_length)
    ELSE <<best_distance, best_length>>

(* the for loop over window offsets i, with its early break *)
RECURSIVE search_window(_, _, _, _, _, _, _)
search_window(d, i, current_pos, lookahead_end, lookahead_size, best_distance, best_length) ==
    IF i < current_pos
    THEN LET ml == match_length_at(d, i, current_pos, current_pos, lookahead_end, 0)
         IN IF ml > best_length
            THEN IF ml >= lookahead_size
                 THEN <<current_pos - i, ml>>
                 ELSE search_window(d, i + 1, current_pos, lookahead_end,
                                    lookahead_size, current_pos - i, ml)
            ELSE search_window(d, i + 1, current_pos, lookahead_end,
                               lookahead_size, best_distance, best_length)
    ELSE <<best_distance, best_length>>

(* the longest match accepted from a length of 2 *)
find_longest_match_from2(d, current_pos, window_size, lookahead_size) ==
    LET window_start == Max(0, current_pos - window_size)
        lookahead_end == Min(Len(d), current_pos + lookahead_size)
        best == search_window(d, window_start, current_pos, lookahead_end,
                              lookahead_size, 0, 0)
    IN IF best[2] >= 2 THEN best ELSE <<0, 0>>

find_longest_match(d, current_pos, window_size, lookahead_size) ==
    LET window_start == Max(0, current_pos - window_size)
        lookahead_end == Min(Len(d), current_pos + lookahead_size)
        best == search_window(d, window_start, current_pos, lookahead_end,
                              lookahead_size, 0, 0)
    IN IF best[2] >= 3 THEN best ELSE <<0, 0>>

(* the main loop moving past a match but not past its next character *)
RECURSIVE compress_data_from_match_only(_, _, _, _, _)
compress_data_from_match_only(d, i, window_size, lookahead_size, triplets) ==
    IF i < Len(d)
    THEN LET m == find_longest_match(d, i, window_size, lookahead_size)
             distance == m[1]
             length == m[2]
         IN IF distance > 0 /\ length > 0
            THEN LET next_char_pos == i + length
                     next_char == IF next_char_pos < Len(d) THEN d[next_char_pos + 1] ELSE 0
                 IN compress_data_from_match_only(d, i + length, window_size,
                        lookahead_size, Append(triplets, <<distance, length, next_char>>))
            ELSE compress_data_from_match_only(d, i + 1, window_size, lookahead_size,
                                               Append(triplets, <<0, 0, d[i + 1]>>))
    ELSE triplets

RECURSIVE compress_data_from(_, _, _, _, _)
compress_data_from(d, i, window_size, lookahead_size, triplets) ==
    IF i < Len(d)
    THEN LET m == find_longest_match(d, i, window_size, lookahead_size)
             distance == m[1]
             length == m[2]
         IN IF distance > 0 /\ length > 0
            THEN LET next_char_pos == i + length
                     next_char == IF next_char_pos < Len(d) THEN d[next_char_pos + 1] ELSE 0
                 IN compress_data_from(d, i + length + 1, window_size, lookahead_size,
                                       Append(triplets, <<distance, length, next_char>>))
            ELSE compress_data_from(d, i + 1, window_size, lookahead_size,
                                    Append(triplets, <<0, 0, d[i + 1]>>))
    ELSE triplets

compress_data(d, window_size, lookahead_size) ==
    compress_data_from(d, 0, window_size, lookahead_size, <<>>)

encode_triplet(distance, length, next_char) ==
    LET dist == Min(distance, 65535)
    IN <<(dist \div 256) % 256, dist % 256, Min(length, 255), next_char % 256>>

(* a bounds check that also refuses a triplet ending at the last byte *)
decode_triplet_short(bytes, offset) ==
    IF offset + 4 >= Len(bytes)
    THEN [err |-> TRUE, distance |-> 0, length |-> 0, next_char |-> 0, consumed |-> 0]
    ELSE [err |-> FALSE,
          distance |-> bytes[offset + 1] * 256 + bytes[offset + 2],
          length |-> bytes[offset + 3],
          next_char |-> bytes[offset + 4],
          consumed |-> 4]

(* _decode_triplet: err stands for ValueError("Incomplete triplet data") *)
decode_triplet(bytes, offset) ==
    IF offset + 3 >= Len(bytes)
    THEN [err |-> TRUE, distance |-> 0, length |-> 0, next_char |-> 0, consumed |-> 0]
    ELSE [err |-> FALSE,
          distance |-> bytes[offset + 1] * 256 + bytes[offset + 2],
          length |-> bytes[offset + 3],
          next_char |-> bytes[offset + 4],
          consumed |-> 4]

RECURSIVE encode_triplets(_)
encode_triplets(triplets) ==
    IF triplets = <<>> THEN <<>>
    ELSE encode_triplet(Head(triplets)[1], Head(triplets)[2], Head(triplets)[3])
         \o encode_triplets(Tail(triplets))

(* The encoder of LZ77Compressor.compress after the empty check *)
lz77_encode(d, window_size, lookahead_size) ==
    LET triplets == compress_data(d, window_size, lookahead_size)
        matches == Cardinality({i \in 1..Len(triplets) : triplets[i][1] > 0})
    IN [triplets |-> triplets,
        dict |-> [compressed_data |-> encode_triplets(triplets),
                  original_size |-> Len(d),
                  window_size |-> window_size,
                  lookahead_size |-> lookahead_size,
                  triplet_count |-> Len(triplets),
                  matches |-> matches,
                  literals |-> Len(triplets) - matches]]

(* a copy that demands its whole source range strictly inside the output *)
copy_match_inside(out, start_pos, length) ==
    IF length > 0 /\ start_pos + length >= Len(out)
    THEN [err |-> TRUE, out |-> out]
    ELSE [err |-> FALSE, out |-> out \o SubSeq(out, start_pos + 1, start_pos + length)]

(* the byte-by-byte copy of a match; err stands for the ValueError of a   *)
(* source position at or past the end of the output                        *)
RECURSIVE copy_match(_, _, _)
copy_match(out, start_pos, length) ==
    IF length = 0 THEN [err |-> FALSE, out |-> out]
    ELSE IF start_pos >= Len(out) THEN [err |-> TRUE, out |-> out]
         ELSE copy_match(Append(out, out[start_pos + 1]), start_pos + 1, length - 1)

(* whether the decoder appends the next_char that follows a copied match *)
appends_next_char(next_char, i, compressed_len) ==
    next_char # 0 \/ i < compressed_len

(* The decode loop of LZ77Compressor.decompress *)
RECURSIVE lz77_decode(_, _, _)
lz77_decode(cd, i, out) ==
    IF i < Len(cd)
    THEN LET t == decode_triplet(cd, i)
             j == i + t.consumed
         IN IF t.err THEN [err |-> "Incomplete triplet data", out |-> out]
            ELSE IF t.distance > 0 /\ t.length > 0
                 THEN LET start_pos == Len(out) - t.distance
                      IN IF start_pos < 0
                         THEN [err |-> "Invalid distance reference", out |-> out]
                         ELSE LET c == copy_match(out, start_pos, t.length)
                              IN IF c.err
                                 THEN [err |-> "Distance reference beyond available data",
                                       out |-> c.out]
                                 ELSE lz77_decode(cd, j,
                                        IF appends_next_char(t.next_char, j, Len(cd))
                                        THEN Append(c.out, t.next_char) ELSE c.out)
                 ELSE lz77_decode(cd, j, Append(out, t.next_char))
    ELSE [err |-> "", out |-> out]

(* LZ77Compressor.decompress on an artifact file *)
lz77_decompress(f) ==
    IF header_error(f.magic) # ""
    THEN [result |-> Raised(header_error(f.magic)), out |-> NoOut]
    ELSE LET d == f.body
             r == lz77_decode(d.compressed_data, 0, <<>>)
         IN IF r.err # ""
            THEN [result |-> Raised(r.err), out |-> NoOut]
            ELSE [result |-> [outcome |-> "returned",
                              success |-> Len(r.out) = d.original_size,
                              error |-> "",
                              original_size |-> d.original_size,
                              decompressed_size |-> Len(r.out)],
                  out |-> [exists |-> TRUE, content |-> r.out]]

----------------------------------------------------------------------------
(* State machine: construction, compression, damage in storage,            *)
(* decompression                                                           *)

Modes == {"huffmanCoding", "runLengthEncoding", "lZ77"}

NoParams == [threshold |-> 0, window_size |-> 0, lookahead_size |-> 0]
NoVl == [stage |-> "idle", n |-> 0, bytes |-> <<>>, dec |-> LengthError]
NoBody == [artifact |-> NoFile, content |-> <<>>]
NoHttp == [stage |-> "idle", endpoint |-> "", mode |-> "", has_file |-> FALSE,
           status |-> 0, detail |-> <<>>, body |-> NoBody,
           temp_input |-> FALSE, temp_output |-> FALSE]
NoProbe == [kind |-> "none", args |-> <<>>, out |-> <<>>]
NoPrev == [calls |-> 0, data |-> <<>>, artFile |-> NoFile, outFile |-> NoOut,
           work |-> NoWork, hroot |-> None, hcodes |-> EmptyDict]

Init ==
    /\ mode \in Modes
    /\ pc = "new"
    /\ data = <<>>
    /\ work = NoWork
    /\ artFile = NoFile
    /\ outFile = NoOut
    /\ result = NoResult
    /\ hroot = None
    /\ hcodes = EmptyDict
    /\ params = NoParams
    /\ damage = "none"
    /\ vl = NoVl
    /\ prev = NoPrev
    /\ analysis = NoAnalysis
    /\ probe = NoProbe
    /\ http = NoHttp

HuffmanInputs == SeqsUpTo(HBytes, HMaxLen)

(* HuffmanCompressor.__init__ *)
HuffmanInit ==
    /\ mode = "huffmanCoding" /\ pc = "new"
    /\ hroot' = None
    /\ hcodes' = EmptyDict
    /\ pc' = "ready"
    /\ UNCHANGED <<http, probe, analysis, prev, mode, data, work, artFile, outFile, result, params, damage, vl>>

(* compress without its empty check *)
AfterReadUnchecked(b) == "encode"

(* Where compress goes after reading the input file: an empty file raises *)
AfterRead(b) == IF b = <<>> THEN "done" ELSE "encode"

(* HuffmanCompressor.compress, the read of the input file and the empty check *)
HuffmanCompressOpen(b) ==
    /\ mode = "huffmanCoding" /\ pc = "ready"
    /\ data' = b
    /\ pc' = AfterRead(b)
    /\ result' = IF AfterRead(b) = "done" THEN Raised("Input file is empty") ELSE result
    /\ UNCHANGED <<http, probe, analysis, prev, mode, work, artFile, outFile, hroot, hcodes, params, damage, vl>>

(* a compress that goes on counting bytes from the previous call *)
HuffmanCompressEncodeCounting ==
    /\ mode = "huffmanCoding" /\ pc = "encode"
    /\ LET e == huffman_encode(data)
       IN /\ hroot' = e.root
          /\ hcodes' = e.codes
          /\ work' = [built |-> {"freq_table", "tree", "codes"},
                      total_bits |-> e.total_bits, runs |-> <<>>, triplets |-> <<>>]
          /\ artFile' = Pickled([e.dict EXCEPT !.original_size = @ + Len(prev.data)])
          /\ result' = [outcome |-> "returned", success |-> TRUE, error |-> "",
                        original_size |-> Len(data), decompressed_size |-> -1]
    /\ pc' = "compressed"
    /\ UNCHANGED <<http, probe, analysis, prev, mode, data, outFile, params, damage, vl>>

(* HuffmanCompressor.compress, from the frequency table to the written artifact *)
HuffmanCompressEncode ==
    /\ mode = "huffmanCoding" /\ pc = "encode"
    /\ LET e == huffman_encode(data)
       IN /\ hroot' = e.root
          /\ hcodes' = e.codes
          /\ work' = [built |-> {"freq_table", "tree", "codes"},
                      total_bits |-> e.total_bits, runs |-> <<>>, triplets |-> <<>>]
          /\ artFile' = Pickled(e.dict)
          /\ result' = [outcome |-> "returned", success |-> TRUE, error |-> "",
                        original_size |-> Len(data), decompressed_size |-> -1]
    /\ pc' = "compressed"
    /\ UNCHANGED <<http, probe, analysis, prev, mode, data, outFile, params, damage, vl>>

(* What may happen to the stored artifact between compress and decompress: *)
(* a field or the payload altered, the first bytes replaced by those of    *)
(* another file type, or the same dictionary pickled with protocol 2       *)
DamageKinds == {"size_plus", "size_minus", "drop_last", "last_ff", "png", "jpeg", "junk",
                "protocol2", "bad_tag", "cut_length", "far_distance", "long_match",
                "stray_bit"}

(* bad_tag and cut_length alter an RLE segment stream, far_distance and    *)
(* long_match an LZ77 triplet stream; long_match lengthens a final triplet *)
(* that is a match beyond the whole recorded original size; stray_bit      *)
(* turns the first padding bit of a Huffman payload into a payload bit 1   *)
DamageApplies(kind) ==
    CASE kind \in {"bad_tag", "cut_length"} -> mode = "runLengthEncoding"
      [] kind = "far_distance" -> mode = "lZ77"
      [] kind = "stray_bit" ->
            mode = "huffmanCoding" /\ artFile.body.padding \in 1..7
      [] kind = "long_match" ->
            /\ mode = "lZ77"
            /\ LET cd == artFile.body.compressed_data
               IN cd[Len(cd) - 3] > 0 \/ cd[Len(cd) - 2] > 0
      [] OTHER -> TRUE

Damaged(f, kind) ==
    LET cd == f.body.compressed_data
    IN CASE kind = "size_plus" ->
              [f EXCEPT !.body.original_size = @ + 1]
         [] kind = "size_minus" ->
              [f EXCEPT !.body.original_size = @ - 1]
         [] kind = "drop_last" ->
              [f EXCEPT !.body.compressed_data = Take(cd, Len(cd) - 1)]
         [] kind = "last_ff" ->
              [f EXCEPT !.body.compressed_data =
                  IF cd = <<>> THEN <<255>> ELSE [cd EXCEPT ![Len(cd)] = 255]]
         [] kind = "png" -> [f EXCEPT !.magic = <<137, 80, 78, 71>>]
         [] kind = "jpeg" -> [f EXCEPT !.magic = <<255, 216>>]
         [] kind = "protocol2" -> [f EXCEPT !.magic = <<128, 2>>]
         [] kind = "bad_tag" ->
              [f EXCEPT !.body.compressed_data = [cd EXCEPT ![1] = 0]]
         [] kind = "cut_length" ->
              [f EXCEPT !.body.compressed_data = Take(cd, 1)]
         [] kind = "far_distance" ->
              [f EXCEPT !.body.compressed_data =
                  [cd EXCEPT ![Len(cd) - 2] = 255, ![Len(cd) - 1] = 3]]
         [] kind = "stray_bit" ->
              [f EXCEPT !.body.padding = @ - 1,
                        !.body.compressed_data =
                            [cd EXCEPT ![Len(cd)] = @ + Pow2(f.body.padding - 1)]]
         [] kind = "long_match" ->
              [f EXCEPT !.body.compressed_data =
                  [cd EXCEPT ![Len(cd) - 1] = f.body.original_size + 2]]
         [] OTHER -> [f EXCEPT !.magic = <<0, 0>>]

Damage(kind) ==
    /\ pc = "compressed"
    /\ DamageApplies(kind)
    /\ artFile' = Damaged(artFile, kind)
    /\ damage' = kind
    /\ pc' = "stored"
    /\ UNCHANGED <<http, probe, analysis, prev, mode, data, work, outFile, result, hroot, hcodes, params, vl>>

(* HuffmanCompressor.decompress *)
HuffmanDecompress ==
    /\ mode = "huffmanCoding" /\ pc \in {"compressed", "stored"}
    /\ LET r == huffman_decompress(artFile)
       IN /\ result' = r.result
          /\ outFile' = r.out
    /\ pc' = "done"
    /\ UNCHANGED <<http, probe, analysis, prev, mode, data, work, artFile, hroot, hcodes, params, damage, vl>>

NextHuffman ==
    \/ HuffmanInit
    \/ \E b \in HuffmanInputs : HuffmanCompressOpen(b)
    \/ HuffmanCompressEncode
    \/ \E k \in DamageKinds : Damage(k)
    \/ HuffmanDecompress

InitHuffman == Init /\ mode = "huffmanCoding"

SpecHuffman == InitHuffman /\ [][NextHuffman]_vars

(* Input buffers of the RLE runs: up to RMaxPieces pieces, each a byte     *)
(* pattern repeated to a length around the thresholds                     *)
RPatterns == {<<97>>, <<255>>, <<97, 254>>}
RPieceLens == {1, 2, 3, 4}
RThresholds == {2, 3}

Piece(pat, n) == [i \in 1..n |-> pat[((i - 1) % Len(pat)) + 1]]
RPieces == {Piece(pat, n) : pat \in RPatterns, n \in RPieceLens}

RECURSIVE Concats(_)
Concats(k) ==
    IF k = 0 THEN {<<>>}
    ELSE LET shorter == Concats(k - 1)
         IN shorter \cup {a \o b : a \in shorter, b \in RPieces}

RLEInputs == Concats(RMaxPieces)

(* RLECompressor.__init__ *)
RLEInit(threshold) ==
    /\ mode = "runLengthEncoding" /\ pc = "new"
    /\ params' = [params EXCEPT !.threshold = threshold]
    /\ pc' = "ready"
    /\ UNCHANGED <<http, probe, analysis, prev, mode, data, work, artFile, outFile, result, hroot, hcodes, damage, vl>>

(* RLECompressor.compress, the read of the input file and the empty check *)
RLECompressOpen(b) ==
    /\ mode = "runLengthEncoding" /\ pc = "ready"
    /\ data' = b
    /\ pc' = AfterRead(b)
    /\ result' = IF AfterRead(b) = "done" THEN Raised("Input file is empty") ELSE result
    /\ UNCHANGED <<http, probe, analysis, prev, mode, work, artFile, outFile, hroot, hcodes, params, damage, vl>>

(* RLECompressor.compress, from the run list to the written artifact *)
RLECompressEncode ==
    /\ mode = "runLengthEncoding" /\ pc = "encode"
    /\ LET e == rle_encode(data, params.threshold)
       IN /\ work' = [built |-> {"runs"}, total_bits |-> 0, runs |-> e.runs,
                      triplets |-> <<>>]
          /\ artFile' = Pickled(e.dict)
          /\ result' = [outcome |-> "returned", success |-> TRUE, error |-> "",
                        original_size |-> Len(data), decompressed_size |-> -1]
    /\ pc' = "compressed"
    /\ UNCHANGED <<http, probe, analysis, prev, mode, data, outFile, hroot, hcodes, params, damage, vl>>

(* RLECompressor.decompress *)
RLEDecompress ==
    /\ mode = "runLengthEncoding" /\ pc \in {"compressed", "stored"}
    /\ LET r == rle_decompress(artFile)
       IN /\ result' = r.result
          /\ outFile' = r.out
    /\ pc' = "done"
    /\ UNCHANGED <<http, probe, analysis, prev, mode, data, work, artFile, hroot, hcodes, params, damage, vl>>

NextRLE ==
    \/ \E t \in RThresholds : RLEInit(t)
    \/ \E b \in RLEInputs : RLECompressOpen(b)
    \/ RLECompressEncode
    \/ \E k \in DamageKinds : Damage(k)
    \/ RLEDecompress

InitRLE == Init /\ mode = "runLengthEncoding"

(* RLECompressor.analyze_file on an instance that has been constructed *)
AnalyzeInputs == RLEInputs \cup {Rep(97, n) : n \in {10, 11, 20}}
                 \cup {Rep(97, 10) \o <<98>> \o Rep(97, 10), Piece(<<97, 98>>, 20) \o <<98, 98>>}

RLEAnalyze(b) ==
    /\ mode = "runLengthEncoding" /\ pc = "ready"
    /\ data' = b
    /\ analysis' = analyze_file(b, params.threshold)
    /\ pc' = "done"
    /\ UNCHANGED <<http, probe, mode, work, artFile, outFile, result, hroot, hcodes, params,
                   damage, vl, prev>>

NextAnalyze ==
    \/ \E t \in RThresholds : RLEInit(t)
    \/ \E b \in AnalyzeInputs : RLEAnalyze(b)

SpecAnalyze == InitRLE /\ [][NextAnalyze]_vars

SpecRLE == InitRLE /\ [][NextRLE]_vars

(* The variable-length integer routines exercised on their own: a length   *)
(* is encoded, followed by the bytes that come after it in a segment, and  *)
(* decoded from offset 0                                                   *)
VarlenSmall == 300
VarlenInputs == (0..VarlenSmall)
                \cup {511, 65279, 65534, 65535, 65536, 65791, 16777215, 16777216, 2147483647}
VarlenTails == {<<>>, <<97>>, <<97, 98, 99>>}

VarlenEncode(n, tail) ==
    /\ vl.stage = "idle"
    /\ vl' = [stage |-> "encoded", n |-> n, bytes |-> encode_length(n) \o tail,
              dec |-> LengthError]
    /\ UNCHANGED <<http, probe, analysis, prev, mode, pc, data, work, artFile, outFile, result, hroot, hcodes,
                   params, damage>>

VarlenDecode ==
    /\ vl.stage = "encoded"
    /\ vl' = [vl EXCEPT !.stage = "decoded", !.dec = decode_length(vl.bytes, 0)]
    /\ UNCHANGED <<http, probe, analysis, prev, mode, pc, data, work, artFile, outFile, result, hroot, hcodes,
                   params, damage>>

NextVarlen ==
    \/ \E n \in VarlenInputs, tail \in VarlenTails : VarlenEncode(n, tail)
    \/ VarlenDecode

InitVarlen == Init /\ mode = "runLengthEncoding"

SpecVarlen == InitVarlen /\ [][NextVarlen]_vars

(* Input buffers and constructor arguments of the LZ77 runs *)
LZ77Inputs == SeqsUpTo(LBytes, LMaxLen)
LWindowChoices == {0, 1, 3, 32768, 32769}
LLookaheadChoices == {0, 1, 3, 255, 256}

(* the validation with its upper limits excluded *)
lz77_params_error_excl(window_size, lookahead_size) ==
    IF window_size <= 0 \/ window_size >= 32768
    THEN "Window size must be between 1 and 32768"
    ELSE IF lookahead_size <= 0 \/ lookahead_size >= 255
         THEN "Lookahead size must be between 1 and 255"
         ELSE ""

(* the parameter validation of LZ77Compressor.__init__ *)
lz77_params_error(window_size, lookahead_size) ==
    IF window_size <= 0 \/ window_size > 32768
    THEN "Window size must be between 1 and 32768"
    ELSE IF lookahead_size <= 0 \/ lookahead_size > 255
         THEN "Lookahead size must be between 1 and 255"
         ELSE ""

(* LZ77Compressor.__init__ *)
LZ77Init(window_size, lookahead_size) ==
    /\ mode = "lZ77" /\ pc = "new"
    /\ params' = [params EXCEPT !.window_size = window_size,
                                !.lookahead_size = lookahead_size]
    /\ LET e == lz77_params_error(window_size, lookahead_size)
       IN /\ pc' = IF e = "" THEN "ready" ELSE "done"
          /\ result' = IF e = "" THEN result ELSE Raised(e)
    /\ UNCHANGED <<http, probe, analysis, prev, mode, data, work, artFile, outFile, hroot, hcodes, damage, vl>>

(* LZ77Compressor.compress, the read of the input file and the empty check *)
LZ77CompressOpen(b) ==
    /\ mode = "lZ77" /\ pc = "ready"
    /\ data' = b
    /\ pc' = AfterRead(b)
    /\ result' = IF AfterRead(b) = "done" THEN Raised("Input file is empty") ELSE result
    /\ UNCHANGED <<http, probe, analysis, prev, mode, work, artFile, outFile, hroot, hcodes, params, damage, vl>>

(* LZ77Compressor.compress, from the triplet list to the written artifact *)
LZ77CompressEncode ==
    /\ mode = "lZ77" /\ pc = "encode"
    /\ LET e == lz77_encode(data, params.window_size, params.lookahead_size)
       IN /\ work' = [built |-> {"triplets"}, total_bits |-> 0, runs |-> <<>>,
                      triplets |-> e.triplets]
          /\ artFile' = Pickled(e.dict)
          /\ result' = [outcome |-> "returned", success |-> TRUE, error |-> "",
                        original_size |-> Len(data), decompressed_size |-> -1]
    /\ pc' = "compressed"
    /\ UNCHANGED <<http, probe, analysis, prev, mode, data, outFile, hroot, hcodes, params, damage, vl>>

(* LZ77Compressor.decompress *)
LZ77Decompress ==
    /\ mode = "lZ77" /\ pc \in {"compressed", "stored"}
    /\ LET r == lz77_decompress(artFile)
       IN /\ result' = r.result
          /\ outFile' = r.out
    /\ pc' = "done"
    /\ UNCHANGED <<http, probe, analysis, prev, mode, data, work, artFile, hroot, hcodes, params, damage, vl>>

NextLZ77 ==
    \/ \E w \in LWindowChoices, l \in LLookaheadChoices : LZ77Init(w, l)
    \/ \E b \in LZ77Inputs : LZ77CompressOpen(b)
    \/ LZ77CompressEncode
    \/ \E k \in DamageKinds : Damage(k)
    \/ LZ77Decompress

InitLZ77 == Init /\ mode = "lZ77"

(* _find_longest_match called on its own at any position of a buffer, on   *)
(* an instance that has been constructed                                   *)
MatchInputs == SeqsUpTo(LBytes, MatchMaxLen) \ {<<>>}

FindLongestMatch(d, current_pos) ==
    /\ mode = "lZ77" /\ pc = "ready"
    /\ probe.kind = "none"
    /\ probe' = [kind |-> "find_longest_match", args |-> <<d, current_pos>>,
                 out |-> find_longest_match(d, current_pos, params.window_size,
                                            params.lookahead_size)]
    /\ UNCHANGED <<mode, pc, data, work, artFile, outFile, result, hroot, hcodes, params,
                   damage, vl, prev, analysis, http>>

NextMatch ==
    \/ \E w \in LWindowChoices, l \in LLookaheadChoices : LZ77Init(w, l)
    \/ \E d \in MatchInputs : \E p \in 0..(Len(d) - 1) : FindLongestMatch(d, p)

SpecMatch == InitLZ77 /\ [][NextMatch]_vars

(* _encode_triplet and _decode_triplet called on their own: a triplet is   *)
(* encoded, appended to a stream of whole triplets, and decoded at its     *)
(* offset                                                                  *)
TripletDistances == {0, 1, 255, 256, 257, 4096, 32767, 32768}
TripletLengths == {0, 1, 3, 18, 254, 255}
TripletNextBytes == {0, 1, 97, 255}
TripletStreams == {<<>>, <<0, 0, 0, 97>>, <<0, 0, 0, 97, 0, 1, 3, 0>>}

EncodeDecodeTriplet(distance, length, next_char, stream) ==
    /\ mode = "lZ77" /\ pc = "ready"
    /\ probe.kind = "none"
    /\ LET encoded == encode_triplet(distance, length, next_char)
       IN probe' = [kind |-> "triplet",
                    args |-> <<distance, length, next_char, stream>>,
                    out |-> <<encoded, decode_triplet(stream \o encoded, Len(stream))>>]
    /\ UNCHANGED <<mode, pc, data, work, artFile, outFile, result, hroot, hcodes, params,
                   damage, vl, prev, analysis, http>>

NextTriplet ==
    \/ \E w \in LWindowChoices, l \in LLookaheadChoices : LZ77Init(w, l)
    \/ \E distance \in TripletDistances, length \in TripletLengths,
          next_char \in TripletNextBytes, stream \in TripletStreams :
          EncodeDecodeTriplet(distance, length, next_char, stream)

SpecTriplet == InitLZ77 /\ [][NextTriplet]_vars

----------------------------------------------------------------------------
(* The HTTP adapter: the handlers of POST /compression and                 *)
(* POST /decompression.  An exception is a record; the detail of a         *)
(* response is the sequence of the parts that ": " joins in the source     *)

Endpoints == {"compression", "decompression"}
RequestModes == Modes \cup {"zip", ""}

HTTPException(status_code, detail) ==
    [is_http |-> TRUE, status_code |-> status_code, detail |-> detail]
OtherException(message) ==
    [is_http |-> FALSE, status_code |-> 0, detail |-> <<message>>]
NoException == [is_http |-> FALSE, status_code |-> 0, detail |-> <<>>]

StatusText(status_code) ==
    CASE status_code = 400 -> "400"
      [] status_code = 500 -> "500"
      [] OTHER -> "200"

(* str(e): an HTTPException prints as its status code, ": " and its detail *)
str(e) == IF e.is_http THEN <<StatusText(e.status_code)>> \o e.detail ELSE e.detail

(* the handlers' outermost except clause, which catches every Exception,   *)
(* an HTTPException raised inside the try block included                   *)
ProcessingFailed(e) == HTTPException(500, <<"Processing failed">> \o str(e))

FileRequired(endpoint, m) ==
    CASE m = "huffmanCoding" -> "File is required for Huffman coding"
      [] m = "runLengthEncoding" ->
            IF endpoint = "compression" THEN "File is required for RLE compression"
            ELSE "File is required for RLE decompression"
      [] OTHER ->
            IF endpoint = "compression" THEN "File is required for LZ77 compression"
            ELSE "File is required for LZ77 decompression"

CodecFailed(endpoint, m) ==
    CASE m = "huffmanCoding" ->
            IF endpoint = "compression" THEN "Compression failed" ELSE "Decompression failed"
      [] m = "runLengthEncoding" ->
            IF endpoint = "compression" THEN "RLE compression failed"
            ELSE "RLE decompression failed"
      [] OTHER ->
            IF endpoint = "compression" THEN "LZ77 compression failed"
            ELSE "LZ77 decompression failed"

(* compress_file, compress_file_RLE(threshold=3), compress_file_LZ77 with  *)
(* its default window_size and lookahead_size, and the read of the         *)
(* artifact they wrote                                                     *)
HandlerCompress(m, b) ==
    IF b = <<>>
    THEN [exception |-> HTTPException(500, <<CodecFailed("compression", m),
                                              "Input file is empty">>),
          body |-> NoBody]
    ELSE [exception |-> NoException,
          body |-> [artifact |->
                        Pickled(CASE m = "huffmanCoding" -> huffman_encode(b).dict
                                  [] m = "runLengthEncoding" -> rle_encode(b, 3).dict
                                  [] OTHER -> lz77_encode(b, 4096, 18).dict),
                    content |-> <<>>]]

(* decompress_file, decompress_file_RLE, decompress_file_LZ77, and the     *)
(* read of the output file; the LZ77 branch answers a ValueError with 400  *)
HandlerDecompress(m, f) ==
    LET r == CASE m = "huffmanCoding" -> huffman_decompress(f)
               [] m = "runLengthEncoding" -> rle_decompress(f)
               [] OTHER -> lz77_decompress(f)
    IN IF r.result.outcome = "raised"
       THEN [exception |->
                 IF m = "lZ77"
                 THEN HTTPException(400, <<"Invalid LZ77 file", r.result.error>>)
                 ELSE HTTPException(500, <<CodecFailed("decompression", m),
                                           r.result.error>>),
             body |-> NoBody]
       ELSE IF ~r.out.exists
            THEN [exception |-> HTTPException(500, <<CodecFailed("decompression", m),
                                                     "No such file or directory">>),
                  body |-> NoBody]
            ELSE [exception |-> NoException,
                  body |-> [artifact |-> NoFile, content |-> r.out.content]]

HttpInputs == SeqsUpTo(LBytes, HttpMaxLen)
HttpDamageKinds == {"png", "drop_last", "size_plus", "far_distance"}
EmptyUpload == [exists |-> TRUE, magic |-> <<>>, body |-> <<>>]

(* files a client may upload for decompression: artifacts of the codec,    *)
(* intact or altered, and an empty file                                    *)
HttpArtifacts(m) ==
    IF m \notin Modes THEN {EmptyUpload}
    ELSE LET intact == {HandlerCompress(m, b).body.artifact : b \in HttpInputs \ {<<>>}}
         IN intact \cup {Damaged(f, k) : f \in intact, k \in HttpDamageKinds}
                   \cup {EmptyUpload}

Respond(e, body) ==
    [http EXCEPT !.stage = "responded",
                 !.status = IF e = NoException THEN 200 ELSE e.status_code,
                 !.detail = IF e = NoException THEN <<"success">> ELSE e.detail,
                 !.body = body]

(* compression / decompression from the call to the await of file.read():  *)
(* the mode check, the file check, and the creation of the temporary input *)
(* file                                                                    *)
HandlerStart(endpoint, m, has_file, b, f) ==
    /\ pc = "new" /\ http.stage = "idle"
    /\ endpoint = "compression" => has_file /\ f = NoFile
    /\ endpoint = "decompression" => b = <<>> /\ (has_file = (f # NoFile))
    /\ data' = b
    /\ artFile' = f
    /\ LET received == [http EXCEPT !.endpoint = endpoint, !.mode = m,
                                    !.has_file = has_file]
       IN http' =
            IF m \notin Modes
            THEN LET e == ProcessingFailed(HTTPException(400, <<"Invalid mode specified">>))
                 IN [received EXCEPT !.stage = "responded", !.status = e.status_code,
                                     !.detail = e.detail]
            ELSE IF ~has_file
                 THEN LET e == ProcessingFailed(
                                   HTTPException(400, <<FileRequired(endpoint, m)>>))
                      IN [received EXCEPT !.stage = "responded",
                                          !.status = e.status_code, !.detail = e.detail]
                 ELSE [received EXCEPT !.stage = "reading", !.temp_input = TRUE]
    /\ UNCHANGED <<mode, pc, work, outFile, result, hroot, hcodes, params, damage, vl, prev,
                   analysis, probe>>

UploadFaults == {"none", "read", "write"}

(* compression / decompression from the return of file.read() to the       *)
(* response: the write of the temporary input file, the codec call inside  *)
(* try/except/finally with its cleanup, and the outermost except           *)
HandlerResume(fault) ==
    /\ http.stage = "reading"
    /\ http' =
         IF fault = "read"
         THEN Respond(ProcessingFailed(OtherException("upload read failed")), NoBody)
         ELSE IF fault = "write"
              THEN Respond(ProcessingFailed(OtherException("No space left on device")),
                           NoBody)
              ELSE LET r == IF http.endpoint = "compression"
                            THEN HandlerCompress(http.mode, data)
                            ELSE HandlerDecompress(http.mode, artFile)
                       answered ==
                           IF r.exception = NoException THEN Respond(NoException, r.body)
                           ELSE Respond(ProcessingFailed(r.exception), NoBody)
                   IN [answered EXCEPT !.temp_input = FALSE, !.temp_output = FALSE]
    /\ UNCHANGED <<mode, pc, data, work, artFile, outFile, result, hroot, hcodes, params,
                   damage, vl, prev, analysis, probe>>

NextHttp ==
    \/ \E endpoint \in Endpoints, m \in RequestModes, has_file \in BOOLEAN,
          b \in HttpInputs :
          \E f \in HttpArtifacts(m) \cup {NoFile} :
             HandlerStart(endpoint, m, has_file, b, f)
    \/ \E fault \in UploadFaults : HandlerResume(fault)

SpecHttp == Init /\ [][NextHttp]_vars

SpecLZ77 == InitLZ77 /\ [][NextLZ77]_vars

(* A caller that uses one instance for a further compress and decompress,  *)
(* on fresh file paths: the instance keeps its fields (root, codes, the    *)
(* constructor parameters), the files of the earlier call are set aside    *)
RepeatHuffmanInputs == SeqsUpTo(HBytes \ {0}, RepeatMaxLen)
RepeatRLEInputs == {<<>>} \cup RPieces
RepeatLZ77Inputs ==
    {<<>>} \cup {Piece(pat, n) : pat \in {<<97>>, <<0>>, <<97, 0>>, <<0, 97, 97>>},
                               n \in {1, LMaxLen - 1, LMaxLen}}

HasInstance ==
    /\ pc \in {"compressed", "done"}
    /\ mode = "lZ77" => lz77_params_error(params.window_size, params.lookahead_size) = ""

CallAgain ==
    /\ HasInstance
    /\ prev.calls + 1 < MaxCalls
    /\ prev' = [calls |-> prev.calls + 1, data |-> data, artFile |-> artFile,
                outFile |-> outFile, work |-> work, hroot |-> hroot, hcodes |-> hcodes]
    /\ pc' = "ready"
    /\ data' = <<>>
    /\ work' = NoWork
    /\ artFile' = NoFile
    /\ outFile' = NoOut
    /\ UNCHANGED <<http, probe, mode, result, hroot, hcodes, params, damage, vl, analysis>>

NextRepeat ==
    \/ HuffmanInit
    \/ \E b \in RepeatHuffmanInputs : HuffmanCompressOpen(b)
    \/ HuffmanCompressEncode
    \/ HuffmanDecompress
    \/ \E t \in RThresholds : RLEInit(t)
    \/ \E b \in RepeatRLEInputs : RLECompressOpen(b)
    \/ RLECompressEncode
    \/ RLEDecompress
    \/ \E w \in LWindowChoices, l \in LLookaheadChoices : LZ77Init(w, l)
    \/ \E b \in RepeatLZ77Inputs : LZ77CompressOpen(b)
    \/ LZ77CompressEncode
    \/ LZ77Decompress
    \/ CallAgain

SpecRepeat == Init /\ [][NextRepeat]_vars

(* All three codecs *)
Next ==
    \/ HuffmanInit
    \/ \E b \in HuffmanInputs : HuffmanCompressOpen(b)
    \/ HuffmanCompressEncode
    \/ HuffmanDecompress
    \/ \E t \in RThresholds : RLEInit(t)
    \/ \E b \in RLEInputs : RLECompressOpen(b)
    \/ RLECompressEncode
    \/ RLEDecompress
    \/ \E w \in LWindowChoices, l \in LLookaheadChoices : LZ77Init(w, l)
    \/ \E b \in LZ77Inputs : LZ77CompressOpen(b)
    \/ LZ77CompressEncode
    \/ LZ77Decompress
    \/ \E k \in DamageKinds : Damage(k)

Spec == Init /\ [][Next]_vars


----------------------------------------------------------------------------
(* Huffman claims *)

IsPrefix(a, b) == Len(a) <= Len(b) /\ SubSeq(b, 1, Len(a)) = a

BytesOf(d) == {d[i] : i \in 1..Len(d)}

HuffmanCompressed == mode = "huffmanCoding" /\ pc \in {"compressed", "stored", "done"}
                     /\ data # <<>>

HuffmanRoundTripDone == mode = "huffmanCoding" /\ pc = "done" /\ damage = "none"
                        /\ data # <<>>

(* C1: decompressing the artifact Huffman compress produced from a non-empty *)
(* buffer B yields exactly B: same bytes, same length, reported as success.  *)
C1_HuffmanRoundTrip ==
    HuffmanRoundTripDone =>
        /\ outFile.exists
        /\ outFile.content = data
        /\ result.success
        /\ result.decompressed_size = Len(data)

(* A round trip of a buffer whose encoded bit count is a multiple of 8 and   *)
(* which has several distinct symbols *)
C1_Witness ==
    /\ HuffmanRoundTripDone
    /\ work.total_bits % 8 = 0
    /\ Cardinality(BytesOf(data)) > 1
    /\ outFile.content = data

C10_PrefixFree ==
    HuffmanCompressed =>
        /\ DOMAIN hcodes = BytesOf(data)
        /\ \A a \in DOMAIN hcodes : Len(hcodes[a]) >= 1
        /\ \A a, b \in DOMAIN hcodes : a # b => ~IsPrefix(hcodes[a], hcodes[b])

(* A table of three or more codes of different lengths *)
C10_Witness ==
    /\ HuffmanCompressed
    /\ Cardinality(DOMAIN hcodes) >= 3
    /\ \E a, b \in DOMAIN hcodes : Len(hcodes[a]) < Len(hcodes[b])

----------------------------------------------------------------------------
(* LZ77 claims *)

LZ77RoundTripDone == mode = "lZ77" /\ pc = "done" /\ damage = "none" /\ data # <<>>

(* C2: decoding the triplet stream the LZ77 encoder produced from a         *)
(* non-empty buffer B yields exactly B, also when B ends in 0x00 and when   *)
(* B ends exactly at the end of a match.                                    *)
C2_LZ77RoundTrip ==
    LZ77RoundTripDone =>
        /\ result.outcome = "returned"
        /\ result.success
        /\ outFile.exists
        /\ outFile.content = data

(* the triplets held in a byte stream of whole 4-byte groups *)
ParsedTriplets(cd) ==
    [k \in 1..(Len(cd) \div 4) |->
        LET t == decode_triplet(cd, 4 * (k - 1))
        IN <<t.distance, t.length, t.next_char>>]

(* bytes a triplet stands for: its copied bytes and its next_char *)
RECURSIVE SpanSum(_, _)
SpanSum(ts, k) == IF k = 0 THEN 0 ELSE SpanSum(ts, k - 1) + ts[k][2] + 1

(* C7: after the copy of a match the decoder appends next_byte in every     *)
(* case except when the triplet is the final one and appending would make   *)
(* the output longer than original_size; so after a stream whose final      *)
(* triplet is a match, the output holds every triplet's bytes, less the     *)
(* final next_byte only if that byte would overshoot original_size.         *)
C7_EndOfStreamRule ==
    (mode = "lZ77" /\ pc = "done" /\ result.outcome = "returned") =>
        LET ts == ParsedTriplets(artFile.body.compressed_data)
            total == SpanSum(ts, Len(ts))
        IN (ts # <<>> /\ ts[Len(ts)][1] > 0 /\ ts[Len(ts)][2] > 0
            /\ \A k \in 1..Len(ts) : (ts[k][1] > 0) = (ts[k][2] > 0)) =>
               Len(outFile.content) =
                   IF total > artFile.body.original_size THEN total - 1 ELSE total

(* longest common prefix of d[s..] and d[p..lookahead_end), the source      *)
(* bytes free to run past p *)
RECURSIVE OverlapLen(_, _, _, _, _)
OverlapLen(d, s, p, lookahead_end, k) ==
    IF p + k < lookahead_end /\ d[s + k + 1] = d[p + k + 1]
    THEN OverlapLen(d, s, p, lookahead_end, k + 1) ELSE k

LongestOverlap(d, p, window_size, lookahead_size) ==
    LET lookahead_end == Min(Len(d), p + lookahead_size)
        lens == {OverlapLen(d, s, p, lookahead_end, 0) : s \in Max(0, p - window_size)..(p - 1)}
    IN IF lens = {} THEN 0 ELSE CHOOSE m \in lens : \A n \in lens : n <= m

(* C8: at every position p the encoder selects the longest common prefix    *)
(* over all window offsets, overlap past p permitted: a triplet emitted at  *)
(* p has that length when it is 3 or more and is a literal otherwise (for   *)
(* a run of one byte value the second triplet is then a match of            *)
(* distance 1).                                                             *)
C8_LongestMatchOverlaps ==
    (mode = "lZ77" /\ pc = "compressed") =>
        \A k \in 1..Len(work.triplets) :
            LET p == SpanSum(work.triplets, k - 1)
                best == LongestOverlap(data, p, params.window_size, params.lookahead_size)
            IN work.triplets[k][2] = IF best >= 3 THEN best ELSE 0

----------------------------------------------------------------------------
(* RLE claims *)

(* C3: RLE decompress applied to the artifact RLE compress produced from a  *)
(* non-empty buffer B completes without error and yields exactly B.         *)
C3_RLERoundTrip ==
    (mode = "runLengthEncoding" /\ pc = "done" /\ damage = "none" /\ data # <<>>) =>
        /\ result.outcome = "returned"
        /\ result.success
        /\ outFile.exists
        /\ outFile.content = data

(* C4: _decode_length applied to the bytes _encode_length(n) wrote returns  *)
(* n and consumes exactly the bytes written: 1 for n < 255, 3 for           *)
(* 255 <= n < 65535, 6 for n >= 65535.                                      *)
C4_VarlenRoundTrip ==
    vl.stage = "decoded" =>
        LET written == Len(encode_length(vl.n))
        IN /\ written = IF vl.n < 255 THEN 1 ELSE IF vl.n < 65535 THEN 3 ELSE 6
           /\ ~vl.dec.err
           /\ vl.dec.length = vl.n
           /\ vl.dec.consumed = written

----------------------------------------------------------------------------
(* Claims about all three codecs *)

ErrorOutcome(r) ==
    r.outcome = "raised" \/ (r.outcome = "returned" /\ ~r.success /\ r.error # "")

(* C5: when the number of bytes decoded from an artifact differs from the   *)
(* original size recorded in it, decompress ends in an error outcome and    *)
(* the decoded bytes are not written to the output file.                    *)
C5_SizeMismatchFatal ==
    (pc = "done" /\ result.outcome = "returned" /\ result.decompressed_size >= 0
     /\ result.decompressed_size # result.original_size) =>
        /\ ErrorOutcome(result)
        /\ ~outFile.exists

ValidParams ==
    mode = "lZ77" => lz77_params_error(params.window_size, params.lookahead_size) = ""

(* C6: compress on a zero-length input raises an error before any tree,     *)
(* segment list or triplet list is built, and no artifact file is written.  *)
C6_EmptyRejected ==
    (data = <<>> /\ pc \notin {"new", "ready"} /\ ValidParams) =>
        /\ pc = "done"
        /\ result = Raised("Input file is empty")
        /\ work = NoWork
        /\ hroot = None
        /\ hcodes = EmptyDict
        /\ ~artFile.exists
        /\ ~outFile.exists

(* An LZ77 compress call that read an empty input file and raised *)
C6_Witness ==
    /\ mode = "lZ77" /\ pc = "done" /\ data = <<>> /\ ValidParams
    /\ result.outcome = "raised"
    /\ result.error = "Input file is empty"

----------------------------------------------------------------------------
(* RLE segment shape *)

RLEEncoded == mode = "runLengthEncoding" /\ "runs" \in work.built

(* a byte sequence holds n or more consecutive identical bytes *)
HasRun(bytes, n) ==
    \E i \in 1..(Len(bytes) - n + 1) : \A k \in 1..(n - 1) : bytes[i + k] = bytes[i]

(* C11: for every input and threshold T >= 2, no Literal segment emitted by *)
(* the encoder contains T or more consecutive identical bytes, and no two   *)
(* adjacent emitted segments are both Literals.                             *)
C11_SegmentShape ==
    (RLEEncoded /\ params.threshold >= 2) =>
        \A k \in 1..Len(work.runs) :
            ~work.runs[k][1] =>
                /\ ~HasRun(work.runs[k][3], params.threshold)
                /\ k < Len(work.runs) => work.runs[k + 1][1]

(* A literal that holds a short run of two equal bytes under threshold 3,  *)
(* followed by a compressed run                                            *)
C11_Witness ==
    /\ RLEEncoded /\ params.threshold = 3
    /\ \E k \in 1..(Len(work.runs) - 1) :
          /\ ~work.runs[k][1]
          /\ HasRun(work.runs[k][3], 2)
          /\ work.runs[k + 1][1]

----------------------------------------------------------------------------
(* LZ77 triplet bounds *)

LZ77Encoded == mode = "lZ77" /\ "triplets" \in work.built

(* C12: every triplet the encoder emits is either (0, 0, data[p]) or has    *)
(* 1 <= distance <= window_size and 3 <= length <= lookahead_size; no       *)
(* triplet has exactly one of distance and length equal to 0.               *)
C12_TripletBounds ==
    LZ77Encoded =>
        \A k \in 1..Len(work.triplets) :
            LET t == work.triplets[k]
                p == SpanSum(work.triplets, k - 1)
            IN /\ \/ t[1] = 0 /\ t[2] = 0 /\ p < Len(data) /\ t[3] = data[p + 1]
                  \/ /\ 1 <= t[1] /\ t[1] <= params.window_size
                     /\ 3 <= t[2] /\ t[2] <= params.lookahead_size
               /\ (t[1] = 0) = (t[2] = 0)

(* A match as far back as the window reaches and as long as the lookahead  *)
(* allows, after literals                                                  *)
C12_Witness ==
    /\ LZ77Encoded
    /\ \E k \in 2..Len(work.triplets) :
          /\ work.triplets[k][1] = params.window_size
          /\ work.triplets[k][2] = params.lookahead_size
          /\ work.triplets[1][1] = 0

----------------------------------------------------------------------------
(* LZ77 decoder copy safety *)

DistanceErrors == {"Invalid distance reference", "Distance reference beyond available data"}

(* C13: while decoding a triplet stream produced by the encoder, every copy *)
(* step reads an index start + k with 0 <= start + k < current output       *)
(* length: the copy of each match starts at or after output position 0,     *)
(* behind the bytes emitted so far, and decompress raises no distance error *)
(* on encoder output.                                                       *)
C13_CopySafety ==
    LZ77RoundTripDone =>
        /\ result.outcome = "returned"
        /\ result.error \notin DistanceErrors
        /\ \A k \in 1..Len(work.triplets) :
              work.triplets[k][2] > 0 =>
                  LET emitted == SpanSum(work.triplets, k - 1)
                      start == emitted - work.triplets[k][1]
                  IN 0 <= start /\ start < emitted

(* A decoded stream whose match copies from inside the output, not from   *)
(* its first byte                                                          *)
C13_Witness ==
    /\ LZ77RoundTripDone
    /\ result.outcome = "returned"
    /\ outFile.exists
    /\ \E k \in 1..Len(work.triplets) :
          /\ work.triplets[k][2] > 0
          /\ SpanSum(work.triplets, k - 1) - work.triplets[k][1] > 0

----------------------------------------------------------------------------
(* Wrong-format rejection *)

(* C14: for every codec, decompress of a file that begins with the PNG      *)
(* signature, a JPEG SOI marker, or any bytes other than the container's    *)
(* magic bytes ends in an error outcome with nothing decoded, and writes no *)
(* output file.                                                             *)
C14_WrongFormatRejected ==
    (pc = "done" /\ artFile.exists /\ header_error(artFile.magic) # "") =>
        /\ ErrorOutcome(result)
        /\ result.decompressed_size <= 0
        /\ ~outFile.exists

----------------------------------------------------------------------------
(* Corrupt payloads *)

(* some bit of the stream selects a child that is None *)
RECURSIVE MissingChild(_, _, _)
MissingChild(bits, tree_root, node) ==
    IF bits = <<>> \/ node = None THEN FALSE
    ELSE LET from == IF node[1] # NoChar THEN tree_root ELSE node
             child == IF Head(bits) = 0 THEN from[3] ELSE from[4]
         IN child = None \/ MissingChild(Tail(bits), tree_root, child)

CorruptPayload ==
    LET cd == artFile.body.compressed_data
    IN \/ /\ mode = "runLengthEncoding"
          /\ cd # <<>>
          /\ cd[1] \notin {254, 255} \/ Len(cd) = 1
       \/ /\ mode = "lZ77"
          /\ Len(cd) % 4 = 0
          /\ LET ts == ParsedTriplets(cd)
             IN \E k \in 1..Len(ts) :
                   ts[k][2] > 0 /\ ts[k][1] > SpanSum(ts, k - 1)
       \/ /\ mode = "huffmanCoding"
          /\ MissingChild(strip_padding(unpack_bits(cd), artFile.body.padding),
                          artFile.body.tree, artFile.body.tree)

(* C15: when decoding meets an RLE tag byte other than 0xFF/0xFE, an RLE    *)
(* length field cut short by the end of the stream, an LZ77 distance larger *)
(* than the bytes emitted so far, or a Huffman bit that leads to a missing  *)
(* child, decompress ends in an error outcome and the output file is not    *)
(* written.                                                                 *)
C15_CorruptLeavesNoOutput ==
    (pc = "done" /\ artFile.exists /\ header_error(artFile.magic) = "" /\ CorruptPayload) =>
        /\ ErrorOutcome(result)
        /\ ~outFile.exists

----------------------------------------------------------------------------
(* LZ77 parameter validation *)

ParamErrors == {"Window size must be between 1 and 32768",
                "Lookahead size must be between 1 and 255"}

ParamsInRange ==
    /\ 1 <= params.window_size /\ params.window_size <= 32768
    /\ 1 <= params.lookahead_size /\ params.lookahead_size <= 255

(* C16: constructing an LZ77 compressor fails with an error exactly when    *)
(* window_size is outside 1..32768 or lookahead_size is outside 1..255, and *)
(* succeeds for every pair inside those ranges, the boundaries included.    *)
C16_ParamValidation ==
    (mode = "lZ77" /\ pc # "new") =>
        /\ (result.outcome = "raised" /\ result.error \in ParamErrors) <=> ~ParamsInRange
        /\ ~ParamsInRange => pc = "done" /\ ~artFile.exists
        /\ ParamsInRange /\ data = <<>> /\ result = NoResult => pc = "ready"

(* A compressor constructed with both parameters at their upper limits *)
C16_Witness ==
    /\ mode = "lZ77" /\ pc = "ready"
    /\ params.window_size = 32768 /\ params.lookahead_size = 255
    /\ result = NoResult

----------------------------------------------------------------------------
(* Repeated calls on one instance *)

SecondCallDone == prev.calls >= 1 /\ pc \in {"compressed", "done"} /\ data # <<>>

FreshArtifact(d) ==
    Pickled(CASE mode = "huffmanCoding" -> huffman_encode(d).dict
              [] mode = "runLengthEncoding" -> rle_encode(d, params.threshold).dict
              [] OTHER -> lz77_encode(d, params.window_size, params.lookahead_size).dict)

FreshDecompress(f) ==
    CASE mode = "huffmanCoding" -> huffman_decompress(f)
      [] mode = "runLengthEncoding" -> rle_decompress(f)
      [] OTHER -> lz77_decompress(f)

----------------------------------------------------------------------------
(* RLE analyzer *)

(* bytes of d that lie inside runs of threshold or more identical bytes *)
RECURSIVE RunBytes(_)
RunBytes(runs) ==
    IF runs = <<>> THEN 0
    ELSE (IF Head(runs)[1] THEN Head(runs)[2] ELSE 0) + RunBytes(Tail(runs))

(* C19: with f = (bytes inside runs of length >= threshold) / (total        *)
(* bytes), the recommendation is 'not recommended - no runs' iff f = 0,     *)
(* 'may increase file size' iff 0 < f < 0.1, 'modest' iff 0.1 <= f < 0.3,   *)
(* and 'good' iff f >= 0.3; an input made only of long runs is 'good'.      *)
C19_DecisionTable ==
    (analysis.called /\ analysis.error = "") =>
        LET c == RunBytes(encode_runs(data, params.threshold))
            n == Len(data)
        IN analysis.recommendation =
               IF c = 0 THEN "not recommended - no runs"
               ELSE IF 10 * c < n THEN "may increase file size"
                    ELSE IF 10 * c < 3 * n THEN "modest"
                         ELSE "good"

----------------------------------------------------------------------------
(* Huffman code lengths *)

(* C20: for every input and any two present byte values a and b, if a       *)
(* occurs strictly more often than b then the code assigned to a is no      *)
(* longer than the code assigned to b.                                      *)
C20_LengthsFollowFrequency ==
    HuffmanCompressed =>
        \A a, b \in BytesOf(data) :
            Count(data, a) > Count(data, b) => Len(hcodes[a]) <= Len(hcodes[b])

(* Three byte values of which the most frequent has the shortest code *)
C20_Witness ==
    /\ HuffmanCompressed
    /\ Cardinality(BytesOf(data)) >= 3
    /\ \E a, b \in BytesOf(data) :
          Count(data, a) > Count(data, b) /\ Len(hcodes[a]) < Len(hcodes[b])

----------------------------------------------------------------------------
(* Huffman single-symbol inputs *)

SingleSymbolCompressed ==
    /\ mode = "huffmanCoding" /\ pc = "compressed"
    /\ data # <<>> /\ Cardinality(BytesOf(data)) = 1

(* C21: for an input made of n >= 1 copies of one byte value, the tree is   *)
(* an internal root whose only child is that byte's leaf on the left, the   *)
(* code table is exactly {byte: "0"}, the encoded bit count is n, and every *)
(* payload byte is 0x00 (for n = 4: padding 4, payload 0x00).               *)
C21_SingleSymbol ==
    SingleSymbolCompressed =>
        LET b == data[1]
            n == Len(data)
            cd == artFile.body.compressed_data
        IN /\ hroot = HuffmanNode(NoChar, n, HuffmanNode(b, n, None, None), None)
           /\ artFile.body.tree = hroot
           /\ hcodes = [x \in {b} |-> <<0>>]
           /\ work.total_bits = n
           /\ Len(cd) = (n + 7) \div 8
           /\ \A i \in 1..Len(cd) : cd[i] = 0
           /\ n = 4 => artFile.body.padding = 4 /\ cd = <<0>>

(* Four copies of one byte value compressed *)
C21_Witness ==
    /\ SingleSymbolCompressed
    /\ Len(data) = 4
    /\ artFile.body.padding = 4
    /\ artFile.body.compressed_data = <<0>>

----------------------------------------------------------------------------
(* Huffman tie-breaking *)

(* a queue kept in insertion order; a stable pop takes the earliest node   *)
(* among those of least frequency                                          *)
StablePopIndex(q) ==
    CHOOSE i \in 1..Len(q) :
        /\ \A j \in 1..Len(q) : q[i][2] <= q[j][2]
        /\ \A j \in 1..(i - 1) : q[j][2] > q[i][2]

Without(q, i) == SubSeq(q, 1, i - 1) \o SubSeq(q, i + 1, Len(q))

RECURSIVE StableCombine(_)
StableCombine(q) ==
    IF Len(q) > 1
    THEN LET i1 == StablePopIndex(q)
             q1 == Without(q, i1)
             i2 == StablePopIndex(q1)
             q2 == Without(q1, i2)
         IN StableCombine(Append(q2,
                HuffmanNode(NoChar, q[i1][2] + q1[i2][2], q[i1], q1[i2])))
    ELSE q[1]

StableTree(freq_table) ==
    LET leaves == [i \in 1..Len(freq_table) |->
                      HuffmanNode(freq_table[i][1], freq_table[i][2], None, None)]
    IN IF Len(leaves) = 1
       THEN HuffmanNode(NoChar, leaves[1][2], leaves[1], None)
       ELSE StableCombine(leaves)

(* the first two nodes popped during tree construction *)
FirstPops(freq_table) ==
    LET heap == PushLeaves(freq_table, <<>>)
        p1 == heappop(heap)
        p2 == heappop(p1[2])
    IN <<p1[1][1], p2[1][1]>>

(* C22: whenever the priority queue holds several nodes of equal frequency, *)
(* the one inserted earliest is popped first, for every pop during tree     *)
(* construction: the tree is the one that stable pops build, and with       *)
(* symbols of equal frequency the first two pops are the first two symbols  *)
(* inserted.                                                                *)
C22_StableTies ==
    (HuffmanCompressed /\ pc = "compressed") =>
        LET ft == build_frequency_table(data)
        IN /\ hroot = StableTree(ft)
           /\ (Len(ft) >= 2 /\ \A i \in 1..Len(ft) : ft[i][2] = ft[1][2]) =>
                  FirstPops(ft) = <<ft[1][1], ft[2][1]>>

----------------------------------------------------------------------------
(* LZ77 tie-break among equally long matches *)

MatchFound == probe.kind = "find_longest_match"

(* the match length the search measures from window offset s *)
MeasuredLength(d, s, p) ==
    match_length_at(d, s, p, p, Min(Len(d), p + params.lookahead_size), 0)

(* C23: among all window start offsets s that achieve the longest match     *)
(* length the search finds at position p, the encoder reports the smallest  *)
(* s, i.e. the largest distance among the equally long candidates, also     *)
(* when the search stops early on reaching lookahead_size.                  *)
C23_EarliestOffset ==
    (MatchFound /\ probe.out[2] > 0) =>
        LET d == probe.args[1]
            p == probe.args[2]
            s == p - probe.out[1]
            window == Max(0, p - params.window_size)..(p - 1)
        IN /\ s \in window
           /\ MeasuredLength(d, s, p) = probe.out[2]
           /\ \A t \in window :
                 /\ MeasuredLength(d, t, p) <= probe.out[2]
                 /\ MeasuredLength(d, t, p) = probe.out[2] => s <= t

(* Two offsets reach the same longest length, short of lookahead_size, and *)
(* the earlier one is reported                                             *)
C23_Witness ==
    /\ MatchFound /\ probe.out[2] >= 3
    /\ probe.out[2] < params.lookahead_size
    /\ LET d == probe.args[1]
           p == probe.args[2]
       IN \E t \in Max(0, p - params.window_size)..(p - 1) :
             /\ t > p - probe.out[1]
             /\ MeasuredLength(d, t, p) = probe.out[2]

----------------------------------------------------------------------------
(* RLE segment list against the input *)

(* the bytes a segment list stands for: count copies of the byte of a Run, *)
(* the bytes of a Literal verbatim                                         *)
RECURSIVE Expanded(_)
Expanded(runs) ==
    IF runs = <<>> THEN <<>>
    ELSE LET r == Head(runs)
         IN (IF r[1] THEN Rep(r[3][1], r[2]) ELSE r[3]) \o Expanded(Tail(runs))

RECURSIVE LengthSum(_)
LengthSum(runs) == IF runs = <<>> THEN 0 ELSE Head(runs)[2] + LengthSum(Tail(runs))

(* C24: for every input and threshold, expanding the segments returned by  *)
(* the encoder in order (count copies of the byte for a Run, the bytes     *)
(* verbatim for a Literal) yields exactly the input buffer, and the        *)
(* segment lengths sum to the input length.                                *)
C24_SegmentsReproduceInput ==
    RLEEncoded =>
        /\ Expanded(work.runs) = data
        /\ LengthSum(work.runs) = Len(data)

(* A segment list that mixes a Run with a Literal of two or more bytes *)
C24_Witness ==
    /\ RLEEncoded
    /\ \E j, k \in 1..Len(work.runs) :
          /\ work.runs[j][1] /\ work.runs[j][2] >= 3
          /\ ~work.runs[k][1] /\ work.runs[k][2] >= 2
    /\ Expanded(work.runs) = data

----------------------------------------------------------------------------
(* LZ77 matches longer than the recorded size allows *)

(* triplet k of the stream is a match whose source lies in the output, all *)
(* triplets before it decode without error, and its copy would carry the   *)
(* output past original_size + 1                                           *)
OverlongMatchAt(f, k) ==
    LET ts == ParsedTriplets(f.body.compressed_data)
    IN /\ k \in 1..Len(ts)
       /\ \A j \in 1..k :
             /\ (ts[j][1] > 0) = (ts[j][2] > 0)
             /\ ts[j][1] <= SpanSum(ts, j - 1)
       /\ ts[k][1] > 0
       /\ SpanSum(ts, k - 1) + ts[k][2] > f.body.original_size + 1

(* C25: when the decoder meets a triplet with distance > 0 whose length L   *)
(* satisfies (bytes emitted so far) + L > original_size + 1, it stops with  *)
(* a fatal error instead of copying the bytes.                              *)
C25_OverlongMatchRejected ==
    (mode = "lZ77" /\ pc = "done" /\ artFile.exists /\ header_error(artFile.magic) = ""
     /\ \E k \in 1..(Len(artFile.body.compressed_data) \div 4) :
           OverlongMatchAt(artFile, k)) =>
        /\ result.outcome = "raised"
        /\ ~outFile.exists

----------------------------------------------------------------------------
(* LZ77 triplet framing *)

TripletProbed == probe.kind = "triplet"

(* C26: for every distance in 0..32768, length in 0..255 and next_byte in   *)
(* 0..255, _encode_triplet yields exactly 4 bytes (distance big-endian in   *)
(* bytes 0-1, length in byte 2, next_byte in byte 3) and _decode_triplet on *)
(* those bytes returns the same (distance, length, next_byte) with 4 bytes  *)
(* consumed; decoding the last complete triplet of a stream does not raise. *)
C26_TripletFraming ==
    TripletProbed =>
        LET distance == probe.args[1]
            length == probe.args[2]
            next_byte == probe.args[3]
            encoded == probe.out[1]
            decoded == probe.out[2]
        IN /\ Len(encoded) = 4
           /\ \A k \in 1..4 : encoded[k] \in 0..255
           /\ encoded[1] * 256 + encoded[2] = distance
           /\ encoded[3] = length
           /\ encoded[4] = next_byte
           /\ ~decoded.err
           /\ decoded.distance = distance
           /\ decoded.length = length
           /\ decoded.next_char = next_byte
           /\ decoded.consumed = 4

(* The largest distance and length, decoded as the last triplet of a       *)
(* stream that holds other triplets before it                              *)
C26_Witness ==
    /\ TripletProbed
    /\ probe.args[1] = 32768 /\ probe.args[2] = 255 /\ probe.args[3] = 255
    /\ probe.args[4] # <<>>
    /\ probe.out[1] = <<128, 0, 255, 255>>
    /\ ~probe.out[2].err

----------------------------------------------------------------------------
(* HTTP adapter *)

Responded == http.stage = "responded"

(* C27: a request to /compression or /decompression whose mode is not one  *)
(* of huffmanCoding, runLengthEncoding, lZ77 is answered with status 400   *)
(* 'Invalid mode specified', not with the generic 500 'Processing failed'  *)
(* status used for unexpected errors.                                      *)
C27_InvalidModeDistinct ==
    (Responded /\ http.mode \notin Modes) =>
        /\ http.status = 400
        /\ http.detail = <<"Invalid mode specified">>

(* C28: on every exit path of a /compression or /decompression request     *)
(* after the temporary input file has been created (success, codec error,  *)
(* or a failure while reading the upload or writing it to the temp file),  *)
(* neither the temporary input file nor the temporary output file exists   *)
(* once the request has completed.                                         *)
C28_TempFilesRemoved ==
    Responded => ~http.temp_input /\ ~http.temp_output

----------------------------------------------------------------------------
(* LZ77 encoder coverage *)

(* C29: the position p strictly increases on every loop iteration, the     *)
(* loop ends, and the sum over emitted triplets of (length + 1) equals N,  *)
(* or equals N + 1 exactly when the last triplet is a match that consumed  *)
(* the final input bytes (its next_byte is then the sentinel 0).  The      *)
(* position of iteration k is the sum of the spans of the triplets before  *)
(* it; each iteration starts inside the input and ends further on.         *)
C29_EncoderCoversInput ==
    LZ77Encoded =>
        LET ts == work.triplets
            N == Len(data)
            last == Len(ts)
            total == SpanSum(ts, last)
            final_match == /\ last > 0
                           /\ ts[last][1] > 0
                           /\ SpanSum(ts, last - 1) + ts[last][2] = N
        IN /\ \A k \in 1..last :
                 /\ SpanSum(ts, k - 1) < N
                 /\ SpanSum(ts, k - 1) < SpanSum(ts, k)
           /\ total \in {N, N + 1}
           /\ (total = N + 1) <=> final_match
           /\ final_match => ts[last][3] = 0

(* Literals, then a match that ends exactly at the end of the input *)
C29_Witness ==
    /\ LZ77Encoded
    /\ Len(work.triplets) >= 2
    /\ work.triplets[1][1] = 0
    /\ work.triplets[Len(work.triplets)][1] > 0
    /\ SpanSum(work.triplets, Len(work.triplets)) = Len(data) + 1

----------------------------------------------------------------------------
(* Huffman decompress outcomes *)

HuffmanDecompressDone == mode = "huffmanCoding" /\ pc = "done" /\ artFile.exists

(* the artifact cannot be loaded, or some bit of its payload selects a     *)
(* child that is None                                                      *)
HuffmanArtifactBroken ==
    \/ Unpicklable(artFile)
    \/ MissingChild(strip_padding(unpack_bits(artFile.body.compressed_data),
                                  artFile.body.padding),
                    artFile.body.tree, artFile.body.tree)

(* C30: Huffman decompress never propagates an exception: for any artifact *)
(* file, including one that cannot be parsed or whose payload walks onto a *)
(* missing child, the call returns a result, with success = False and a    *)
(* non-empty error_message for such an artifact, and it returns            *)
(* success = True only when the decoded length equals the recorded         *)
(* original size and is greater than 0.                                    *)
C30_DecompressNeverRaises ==
    HuffmanDecompressDone =>
        /\ result.outcome = "returned"
        /\ HuffmanArtifactBroken => (~result.success /\ result.error # "")
        /\ result.success =>
              /\ result.decompressed_size = result.original_size
              /\ result.decompressed_size > 0

====
